---- MODULE Spec2Model ----
(***************************************************************************)
(* Verification model of analyze_dependencies.py: the cycle detector       *)
(* (find_circular_dependencies), the three analyzers (namespace, class,    *)
(* system) and the renderer (generate_dot_content).                        *)
(***************************************************************************)
EXTENDS Integers, Sequences, FiniteSets, TLC

(***************************************************************************)
(* Bounds of the model.                                                    *)
(***************************************************************************)
NumNodes == 3
MaxEdges == 3
MaxEmptyKeys == 1
MaxUnits == 2
MaxLines == 3
MaxRenderEdges == 2
MaxReasons == 3

Nodes == 1..NumNodes

VARIABLES
    phase,               \* position of the program
    dependencies,        \* the mapping handed to find_circular_dependencies
    circular_deps,       \* Phase 1 candidate edges
    circular_nodes,      \* Phase 1 candidate nodes
    visited,             \* Phase 1 visited set
    rec_stack,           \* Phase 1 recursion-stack set
    stack,               \* the call stack of dfs: frames [node, path, i]
    retval,              \* value returned by the dfs call that just ended
    root,                \* index of the next traversal root in the key order
    truly_circular_deps, \* the returned set
    run,                 \* number of the run on this graph (1 or 2)
    first_result,        \* result of the first run
    fallback_deps,       \* history: the candidates the 'except' branch added
    mode,                \* the analysis chosen: "namespace", "class", "system"
    units,               \* the source files, in the order rglob yields them
    all_classes,         \* class analysis: short name -> namespace (ordered)
    system_classes,      \* system analysis: short name -> namespace (ordered)
    all_systems,         \* system analysis: every qualified name seen
    namespace_usings,    \* namespace analysis: namespace -> target -> places
    dependency_details,  \* key -> list of <<target, reasons>>
    upos,                \* index of the (unit, symbol) the second pass is at
    dot_content          \* the rendered graph

cycleVars == <<phase, dependencies, circular_deps, circular_nodes, visited,
               rec_stack, stack, retval, root, truly_circular_deps, run,
               first_result, fallback_deps>>

\* the local state of find_circular_dependencies
detectorVars == <<circular_deps, circular_nodes, visited, rec_stack, stack,
                  retval, root, truly_circular_deps, run, first_result,
                  fallback_deps>>

analysisVars == <<mode, units, all_classes, system_classes, all_systems,
                  namespace_usings, dependency_details, upos>>

renderVars == <<dot_content>>

vars == <<cycleVars, analysisVars, renderVars>>

(***************************************************************************)
(* Helpers on sequences.                                                   *)
(***************************************************************************)
Range(s) == {s[i] : i \in 1..Len(s)}

\* list.index(x): the first position of x in s (x is in s)
Index(s, x) == CHOOSE i \in 1..Len(s) : s[i] = x /\ \A j \in 1..(i-1) : s[j] # x

\* all orderings of the elements of a duplicate-free sequence
Perms(s) ==
    {p \in [1..Len(s) -> Range(s)] : \A i, j \in 1..Len(s) : i # j => p[i] # p[j]}

(***************************************************************************)
(* The dependency mapping: an insertion-ordered dict from node to list.    *)
(* keys is the iteration order of the dict, to[k] the target list of the   *)
(* key k.                                                                  *)
(***************************************************************************)
EmptyDeps == [keys |-> <<>>, to |-> <<>>]

\* dependencies.get(node, [])
Get(deps, n) == IF n \in Range(deps.keys) THEN deps.to[n] ELSE <<>>

EdgeSet(deps) ==
    UNION {{<<s, t>> : t \in Range(deps.to[s])} : s \in Range(deps.keys)}

NumEdges(deps) == Cardinality(EdgeSet(deps))

\* the keys whose target list is empty
EmptyKeys(deps) == {n \in Range(deps.keys) : deps.to[n] = <<>>}

(***************************************************************************)
(* Building the mapping, as the analyzers do: a source is inserted as a    *)
(* key when it is first assigned, with a duplicate-free target list        *)
(* (list(set(...)) or list(dict.keys())); the system analyzer also inserts *)
(* keys with an empty list.                                                *)
(***************************************************************************)
WithKey(deps, s) ==
    IF s \in Range(deps.keys) THEN deps
    ELSE [keys |-> Append(deps.keys, s), to |-> (s :> <<>>) @@ deps.to]

WithEdge(deps, s, t) ==
    LET d == WithKey(deps, s)
    IN  IF t \in Range(d.to[s]) THEN d
        ELSE [d EXCEPT !.to[s] = Append(@, t)]

AddEdge(s, t) ==
    /\ phase = "build"
    /\ <<s, t>> \notin EdgeSet(dependencies)
    /\ NumEdges(dependencies) < MaxEdges
    /\ dependencies' = WithEdge(dependencies, s, t)
    /\ UNCHANGED <<phase, circular_deps, circular_nodes, visited, rec_stack,
                   stack, retval, root, truly_circular_deps, run, first_result,
                   fallback_deps>>
    /\ UNCHANGED <<analysisVars, renderVars>>

AddKey(s) ==
    /\ phase = "build"
    /\ s \notin Range(dependencies.keys)
    /\ Cardinality(EmptyKeys(dependencies)) < MaxEmptyKeys
    /\ dependencies' = WithKey(dependencies, s)
    /\ UNCHANGED <<phase, circular_deps, circular_nodes, visited, rec_stack,
                   stack, retval, root, truly_circular_deps, run, first_result,
                   fallback_deps>>
    /\ UNCHANGED <<analysisVars, renderVars>>

(***************************************************************************)
(* find_circular_dependencies, Phase 1.                                    *)
(***************************************************************************)
\* entry of find_circular_dependencies: the four sets start empty
Start ==
    /\ phase = "build"
    /\ phase' = "phase1"
    /\ circular_deps' = {}
    /\ circular_nodes' = {}
    /\ visited' = {}
    /\ rec_stack' = {}
    /\ stack' = <<>>
    /\ retval' = "none"
    /\ root' = 1
    /\ fallback_deps' = {}
    /\ UNCHANGED <<dependencies, truly_circular_deps, run, first_result>>
    /\ UNCHANGED <<analysisVars, renderVars>>

Top == stack[Len(stack)]
Pop == SubSeq(stack, 1, Len(stack) - 1)
Frame(n, p) == [node |-> n, path |-> p, i |-> 0]

\* the edges of cycle = path[cycle_start:] + [node]
CycleEdges(path, node) ==
    LET cycle == SubSeq(path, Index(path, node), Len(path)) \o <<node>>
    IN  {<<cycle[i], cycle[i + 1]>> : i \in 1..(Len(cycle) - 1)}

\* variant: the fallback branch pairs the node with the root of the path
HitEdges_from_root(path, node) ==
    IF node \in Range(path) THEN CycleEdges(path, node)
    ELSE IF path # <<>> THEN {<<path[1], node>>}
    ELSE {}

\* the candidate edges one recursion-stack hit adds
HitEdges(path, node) ==
    IF node \in Range(path) THEN CycleEdges(path, node)
    ELSE IF path # <<>> THEN {<<path[Len(path)], node>>}
    ELSE {}

EndPoints(edges) == {e[1] : e \in edges} \cup {e[2] : e \in edges}

\* for node in dependencies: if node not in visited: dfs(node, [])
NextRoot ==
    /\ phase = "phase1"
    /\ stack = <<>>
    /\ root <= Len(dependencies.keys)
    /\ root' = root + 1
    /\ retval' = "none"
    /\ stack' = IF dependencies.keys[root] \in visited THEN <<>>
                ELSE <<Frame(dependencies.keys[root], <<>>)>>
    /\ UNCHANGED <<phase, dependencies, circular_deps, circular_nodes, visited,
                   rec_stack, truly_circular_deps, run, first_result,
                   fallback_deps>>
    /\ UNCHANGED <<analysisVars, renderVars>>

\* a call of dfs(node, path), up to the loop over the successors
DfsEnter ==
    /\ phase = "phase1"
    /\ stack # <<>>
    /\ Top.i = 0
    /\ retval = "none"
    /\ IF Top.node \in rec_stack
       THEN /\ circular_deps' = circular_deps \cup HitEdges(Top.path, Top.node)
            /\ circular_nodes' =
                 circular_nodes \cup EndPoints(HitEdges(Top.path, Top.node))
            /\ fallback_deps' =
                 IF Top.node \in Range(Top.path) THEN fallback_deps
                 ELSE fallback_deps \cup HitEdges(Top.path, Top.node)
            /\ retval' = "true"
            /\ stack' = Pop
            /\ UNCHANGED <<visited, rec_stack>>
       ELSE IF Top.node \in visited
       THEN /\ retval' = "false"
            /\ stack' = Pop
            /\ UNCHANGED <<circular_deps, circular_nodes, visited, rec_stack,
                           fallback_deps>>
       ELSE /\ visited' = visited \cup {Top.node}
            /\ rec_stack' = rec_stack \cup {Top.node}
            /\ stack' = [stack EXCEPT ![Len(stack)].i = 1]
            /\ UNCHANGED <<circular_deps, circular_nodes, retval,
                           fallback_deps>>
    /\ UNCHANGED <<phase, dependencies, root, truly_circular_deps, run,
                   first_result>>
    /\ UNCHANGED <<analysisVars, renderVars>>

\* one turn of the loop over the successors: call dfs on the next one, or
\* leave the loop, take the node off the recursion stack and return False
DfsLoop ==
    /\ phase = "phase1"
    /\ stack # <<>>
    /\ Top.i >= 1
    /\ retval = "none"
    /\ IF Top.i <= Len(Get(dependencies, Top.node))
       THEN /\ stack' = Append(stack,
                   Frame(Get(dependencies, Top.node)[Top.i],
                         Append(Top.path, Top.node)))
            /\ UNCHANGED <<rec_stack, retval>>
       ELSE /\ rec_stack' = rec_stack \ {Top.node}
            /\ retval' = "false"
            /\ stack' = Pop
    /\ UNCHANGED <<phase, dependencies, circular_deps, circular_nodes, visited,
                   root, truly_circular_deps, run, first_result,
                   fallback_deps>>
    /\ UNCHANGED <<analysisVars, renderVars>>

\* variant: after False the caller does not move on to the next successor
DfsReturn_same_successor ==
    /\ phase = "phase1"
    /\ stack # <<>>
    /\ retval # "none"
    /\ IF retval = "true"
       THEN /\ stack' = Pop
            /\ UNCHANGED retval
       ELSE /\ stack' = stack
            /\ retval' = "none"
    /\ UNCHANGED <<phase, dependencies, circular_deps, circular_nodes, visited,
                   rec_stack, root, truly_circular_deps, run, first_result,
                   fallback_deps>>
    /\ UNCHANGED <<analysisVars, renderVars>>

\* the caller gets the result: True makes it return True at once, False
\* makes it go on with the next successor
DfsReturn ==
    /\ phase = "phase1"
    /\ stack # <<>>
    /\ retval # "none"
    /\ IF retval = "true"
       THEN /\ stack' = Pop
            /\ UNCHANGED retval
       ELSE /\ stack' = [stack EXCEPT ![Len(stack)].i = @ + 1]
            /\ retval' = "none"
    /\ UNCHANGED <<phase, dependencies, circular_deps, circular_nodes, visited,
                   rec_stack, root, truly_circular_deps, run, first_result,
                   fallback_deps>>
    /\ UNCHANGED <<analysisVars, renderVars>>

(***************************************************************************)
(* find_circular_dependencies, Phase 2.                                    *)
(***************************************************************************)
RECURSIVE can_reach_back(_, _, _, _), ReachLoop(_, _, _, _, _)

\* can_reach_back(current, target) with the visited_for_path set it shares
\* over one check; the result is the returned flag and the set afterwards
can_reach_back(deps, current, target, seen) ==
    IF current = target THEN [found |-> TRUE, seen |-> seen]
    ELSE IF current \in seen THEN [found |-> FALSE, seen |-> seen]
    ELSE ReachLoop(deps, Get(deps, current), 1, target, seen \cup {current})

\* the loop over the successors of one node, from position i on
ReachLoop(deps, nbrs, i, target, seen) ==
    IF i > Len(nbrs) THEN [found |-> FALSE, seen |-> seen]
    ELSE LET r == can_reach_back(deps, nbrs[i], target, seen)
         IN  IF r.found THEN r
             ELSE ReachLoop(deps, nbrs, i + 1, target, r.seen)

\* variant: Phase 1 candidates are returned without validation
is_edge_truly_circular_unchecked(deps, from_node, to_node) == TRUE

is_edge_truly_circular(deps, from_node, to_node) ==
    can_reach_back(deps, to_node, from_node, {}).found

\* the loop over the candidates and the return
Validate ==
    /\ phase = "phase1"
    /\ stack = <<>>
    /\ root > Len(dependencies.keys)
    /\ truly_circular_deps' =
         {e \in circular_deps : is_edge_truly_circular(dependencies, e[1], e[2])}
    /\ phase' = "done"
    /\ UNCHANGED <<dependencies, circular_deps, circular_nodes, visited,
                   rec_stack, stack, retval, root, run, first_result,
                   fallback_deps>>
    /\ UNCHANGED <<analysisVars, renderVars>>

(***************************************************************************)
(* A second run on the same graph, its keys and target lists in another    *)
(* order (the order of a dict built from sets is not fixed).               *)
(***************************************************************************)
Reorderings(deps) ==
    {[keys |-> k, to |-> t] :
        k \in Perms(deps.keys),
        t \in {f \in [DOMAIN deps.to ->
                        UNION {Perms(deps.to[n]) : n \in DOMAIN deps.to}] :
                 \A n \in DOMAIN deps.to : f[n] \in Perms(deps.to[n])}}

Rerun ==
    /\ phase = "done"
    /\ run = 1
    /\ run' = 2
    /\ first_result' = truly_circular_deps
    /\ \E d \in Reorderings(dependencies) : dependencies' = d
    /\ phase' = "phase1"
    /\ circular_deps' = {}
    /\ circular_nodes' = {}
    /\ visited' = {}
    /\ rec_stack' = {}
    /\ stack' = <<>>
    /\ retval' = "none"
    /\ root' = 1
    /\ truly_circular_deps' = {}
    /\ fallback_deps' = {}
    /\ UNCHANGED <<analysisVars, renderVars>>

(***************************************************************************)
(* Specifications of the cycle detector.                                   *)
(***************************************************************************)
\* the analyzers and the renderer have not run
IdleAnalysis ==
    /\ mode = "none"
    /\ units = <<>>
    /\ all_classes = [keys |-> <<>>, ns |-> <<>>]
    /\ system_classes = [keys |-> <<>>, ns |-> <<>>]
    /\ all_systems = {}
    /\ namespace_usings = [keys |-> <<>>, to |-> <<>>]
    /\ dependency_details = <<>>
    /\ upos = 1

IdleRender == dot_content = [nodes |-> <<>>, edges |-> <<>>]

InitCycle ==
    /\ phase = "build"
    /\ dependencies = EmptyDeps
    /\ circular_deps = {}
    /\ circular_nodes = {}
    /\ visited = {}
    /\ rec_stack = {}
    /\ stack = <<>>
    /\ retval = "none"
    /\ root = 1
    /\ truly_circular_deps = {}
    /\ run = 1
    /\ first_result = {}
    /\ fallback_deps = {}
    /\ IdleAnalysis
    /\ IdleRender

NextCycle ==
    \/ \E s, t \in Nodes : AddEdge(s, t)
    \/ \E s \in Nodes : AddKey(s)
    \/ Start
    \/ NextRoot
    \/ DfsEnter
    \/ DfsLoop
    \/ DfsReturn
    \/ Validate

SpecCycle == InitCycle /\ [][NextCycle]_vars

\* the steps of one call of find_circular_dependencies
Detect == NextRoot \/ DfsEnter \/ DfsLoop \/ DfsReturn \/ Validate

\* a graph is built edge by edge, then the function is called
NextLive ==
    \/ \E s, t \in Nodes : AddEdge(s, t)
    \/ Start
    \/ NextRoot
    \/ DfsEnter
    \/ DfsLoop
    \/ DfsReturn
    \/ Validate

\* the call, once made, keeps running: the function is sequential code
SpecCycleLive == InitCycle /\ [][NextLive]_vars /\ WF_vars(Detect)

NextTwoRuns == NextCycle \/ Rerun

SpecTwoRuns == InitCycle /\ [][NextTwoRuns]_vars

(***************************************************************************)
(* The example graph of the specification, G = {A->B, B->C, C->A, D->A},   *)
(* with A, B, C, D written 1, 2, 3, 4, under every order of its keys.      *)
(***************************************************************************)
ExampleTargets == (1 :> <<2>>) @@ (2 :> <<3>>) @@ (3 :> <<1>>) @@ (4 :> <<1>>)

InitExample ==
    /\ phase = "build"
    /\ dependencies \in {[keys |-> k, to |-> ExampleTargets] :
                            k \in Perms(<<1, 2, 3, 4>>)}
    /\ circular_deps = {}
    /\ circular_nodes = {}
    /\ visited = {}
    /\ rec_stack = {}
    /\ stack = <<>>
    /\ retval = "none"
    /\ root = 1
    /\ truly_circular_deps = {}
    /\ run = 1
    /\ first_result = {}
    /\ fallback_deps = {}
    /\ IdleAnalysis
    /\ IdleRender

NextExample ==
    \/ Start
    \/ NextRoot
    \/ DfsEnter
    \/ DfsLoop
    \/ DfsReturn
    \/ Validate

SpecExample == InitExample /\ [][NextExample]_vars

(***************************************************************************)
(* Reachability in a graph given as a set of edges, by closure; used to    *)
(* state the properties of the cycle detector.                             *)
(***************************************************************************)
RECURSIVE Closure(_, _)
Closure(E, S) ==
    LET T == S \cup {e[2] : e \in {d \in E : d[1] \in S}}
    IN  IF T = S THEN S ELSE Closure(E, T)

\* a directed path (of any length, also none) leads from x to y
PathExists(E, x, y) == y \in Closure(E, {x})

\* the edges (a,b) of the mapping with a directed path from b back to a
CycleEdgesOf(deps) ==
    {e \in EdgeSet(deps) : PathExists(EdgeSet(deps), e[2], e[1])}

(***************************************************************************)
(* Properties of the cycle detector.                                       *)
(***************************************************************************)

\* C1: when find_circular_dependencies has returned, an edge (a,b) of the
\* graph is in the returned set if and only if a directed path leads from b
\* back to a.
C1_CircularIffPathBack ==
    phase = "done" => truly_circular_deps = CycleEdgesOf(dependencies)

\* C2: every returned edge (a,b) has a directed path from b back to a, and a
\* Phase 1 candidate without such a path is not returned.
C2_NoFalseCycle ==
    phase = "done" =>
        /\ \A e \in truly_circular_deps :
              PathExists(EdgeSet(dependencies), e[2], e[1])
        /\ \A e \in circular_deps :
              ~PathExists(EdgeSet(dependencies), e[2], e[1])
                 => e \notin truly_circular_deps

\* C2 witness: a run has ended in which Phase 1 found a candidate that lies on
\* no cycle, and something was returned.
C2_Witness ==
    /\ phase = "done"
    /\ truly_circular_deps # {}
    /\ \E e \in circular_deps : ~PathExists(EdgeSet(dependencies), e[2], e[1])

\* C3: every candidate of Phase 1, from the path slice or from the fallback
\* branch, and every returned pair is an edge of the graph.
C3_ResultSubsetOfEdges ==
    /\ circular_deps \subseteq EdgeSet(dependencies)
    /\ truly_circular_deps \subseteq EdgeSet(dependencies)

\* C3 witness: a run has ended that returns an edge the fallback branch added
\* and an edge taken from a path slice.
C3_Witness ==
    /\ phase = "done"
    /\ truly_circular_deps \cap fallback_deps # {}
    /\ truly_circular_deps \ fallback_deps # {}

\* C4: on the example graph the returned set is exactly {(A,B),(B,C),(C,A)},
\* whatever the order of the keys.
C4_ExampleResult ==
    phase = "done" => truly_circular_deps = {<<1, 2>>, <<2, 3>>, <<3, 1>>}

\* C4 witness: a run on the example graph has ended in which (D,A) was a
\* candidate of Phase 1.
C4_Witness ==
    /\ phase = "done"
    /\ <<4, 1>> \in circular_deps
    /\ EdgeSet(dependencies) = {<<1, 2>>, <<2, 3>>, <<3, 1>>, <<4, 1>>}

\* C5: the second run on the same graph, with its keys and target lists in
\* another order, returns the same set as the first run.
C5_TwoRunsAgree ==
    (phase = "done" /\ run = 2) => truly_circular_deps = first_result

(***************************************************************************)
(* Source text.  A unit is a sequence of lines; a line is one of a fixed   *)
(* set of shapes, each standing for a concrete text on which the regular   *)
(* expressions of the analyzers are evaluated:                             *)
(*   namespace  "namespace Game"                                           *)
(*   using      "using Game;"                                              *)
(*   class      "public class X", "public class X {",                      *)
(*              "public class X : B", "public class X : B {"               *)
(*   new        "var v = new X();"                                         *)
(*   attr       "[UpdateAfter(typeof(X))]"                                 *)
(*   mention    "return (X)o;"                                             *)
(*   brace      "{", "}"                                                   *)
(***************************************************************************)
ClassNames == {"Helper", "MoveSystem", "SpawnSystem"}

\* names that contain "System" (\w*System\w*)
SystemNamed == {"MoveSystem", "SpawnSystem"}

\* names that end with Authoring, Baker or Data
HelperSuffixed == {}

Namespaces == {"Game", "Game.UI", "UnityEngine"}

\* namespaces whose name starts with System, Unity or UnityEngine
FrameworkNamespaces == {"UnityEngine"}

NamespaceLine(n) ==
    [kind |-> "namespace", name |-> n, base |-> "", opens |-> 0, closes |-> 0]
UsingLine(n) ==
    [kind |-> "using", name |-> n, base |-> "", opens |-> 0, closes |-> 0]
ClassLine(x, b, o) ==
    [kind |-> "class", name |-> x, base |-> b, opens |-> o, closes |-> 0]
NewLine(x) ==
    [kind |-> "new", name |-> x, base |-> "", opens |-> 0, closes |-> 0]
AttrLine(x) ==
    [kind |-> "attr", name |-> x, base |-> "", opens |-> 0, closes |-> 0]
MentionLine(x) ==
    [kind |-> "mention", name |-> x, base |-> "", opens |-> 0, closes |-> 0]
BraceLine(o, c) ==
    [kind |-> "brace", name |-> "", base |-> "", opens |-> o, closes |-> c]

(***************************************************************************)
(* The regular expressions, evaluated on a line.                           *)
(***************************************************************************)
\* class_patterns: the name a class/struct declaration on the line declares
DeclaredName(line) == IF line.kind = "class" THEN line.name ELSE ""

\* \b(?:class|struct)\s+\w+
HasClassText(line) == line.kind = "class"

\* line.count('{') - line.count('}')
BraceDelta(line) == line.opens - line.closes

\* ^namespace\s+([\w.]+): the first namespace of the content, else "Global"
NamespaceOf(lines) ==
    IF \E i \in 1..Len(lines) : lines[i].kind = "namespace"
    THEN lines[CHOOSE i \in 1..Len(lines) :
                 /\ lines[i].kind = "namespace"
                 /\ \A j \in 1..(i - 1) : lines[j].kind # "namespace"].name
    ELSE "Global"

\* the using statements that name no framework namespace
CustomUsings(lines) ==
    {lines[i].name : i \in {j \in 1..Len(lines) :
                              /\ lines[j].kind = "using"
                              /\ lines[j].name \notin FrameworkNamespaces}}

\* (?:class|struct)\s+NAME somewhere in the content
DeclaredInContent(lines, name) ==
    \E i \in 1..Len(lines) : lines[i].kind = "class" /\ lines[i].name = name

\* class_pattern of extract_class_scope:
\* (?:class|struct)\s+NAME(?:\s*:|<|\s+|\s*{)
ScopePatternMatches(line, name) ==
    /\ line.kind = "class"
    /\ line.name = name
    /\ (line.base # "" \/ line.opens > 0)

\* class_usage_patterns: the description of the first pattern that matches
\* the line for the class other, "" when none does
ClassUsage(line, other) ==
    IF line.kind = "class" /\ line.base = other THEN "inheritance"
    ELSE IF line.kind = "new" /\ line.name = other THEN "object instantiation"
    ELSE IF line.kind = "attr" /\ line.name = other THEN "typeof reference"
    ELSE IF line.kind \in {"class", "mention", "namespace", "using"}
            /\ line.name = other THEN "general reference"
    ELSE ""

\* system_usage_patterns: the same for the system analysis
SystemUsage(line, other) ==
    IF line.kind = "attr" /\ line.name = other THEN "UpdateAfter dependency"
    ELSE IF line.kind \in {"class", "new", "mention", "namespace", "using"}
            /\ (line.name = other \/ line.base = other)
    THEN "general reference"
    ELSE ""

\* legitimate_patterns: some pattern matches the line for the class other
LegitimateUsage(line, other) ==
    \/ line.kind = "new" /\ line.name = other
    \/ line.kind = "class" /\ line.base = other
    \/ line.kind = "attr" /\ line.name = other

\* the tree is complete: it ends with a unit that holds a line
TreeWritten ==
    /\ phase = "write"
    /\ IF units = <<>> THEN FALSE ELSE units[Len(units)] # <<>>

(***************************************************************************)
(* Class analysis, first pass: the table of top-level classes.             *)
(***************************************************************************)
LookBack == 50

RECURSIVE BraceBalance(_, _, _)
\* the sum of the brace deltas of lines[from..to]
BraceBalance(lines, from, to) ==
    IF from > to THEN 0
    ELSE BraceDelta(lines[from]) + BraceBalance(lines, from + 1, to)

\* the positions the backward scan from line i visits:
\* range(i-1, max(0, i-50), -1) on 0-based indexes, written 1-based
ScanRange(i) ==
    LET i0 == i - 1
        stop == IF i0 - LookBack > 0 THEN i0 - LookBack ELSE 0
    IN  {j \in 1..(i - 1) : j - 1 <= i0 - 1 /\ j - 1 > stop}

\* is_nested of the declaration on line i: the nearest class/struct line in
\* the scanned range decides, by the brace balance from it up to line i
IsNested(lines, i) ==
    LET found == {j \in ScanRange(i) : HasClassText(lines[j])}
    IN  /\ found # {}
        /\ LET j == CHOOSE k \in found : \A m \in found : m <= k
           IN  BraceBalance(lines, j, i - 1) > 0

\* all_classes[class_name] = (namespace, full_class_name)
PutClass(table, name, ns) ==
    [keys |-> IF name \in Range(table.keys) THEN table.keys
              ELSE Append(table.keys, name),
     ns   |-> (name :> ns) @@ table.ns]

RECURSIVE CollectClasses(_, _, _)
\* the loop over the lines of one unit, from line i on
CollectClasses(table, lines, i) ==
    IF i > Len(lines) THEN table
    ELSE IF DeclaredName(lines[i]) # "" /\ ~IsNested(lines, i)
    THEN CollectClasses(
             PutClass(table, DeclaredName(lines[i]), NamespaceOf(lines)),
             lines, i + 1)
    ELSE CollectClasses(table, lines, i + 1)

RECURSIVE CollectAllClasses(_, _, _)
\* the loop over the units, from unit u on
CollectAllClasses(table, us, u) ==
    IF u > Len(us) THEN table
    ELSE CollectAllClasses(CollectClasses(table, us[u], 1), us, u + 1)

\* the qualified name f"{namespace}.{class_name}"
FullName(table, name) == <<table.ns[name], name>>

(***************************************************************************)
(* extract_class_scope and has_legitimate_class_usage.                     *)
(***************************************************************************)
\* the first line the class pattern matches, 0 when there is none
ClassStartLine(lines, name) ==
    IF \E i \in 1..Len(lines) : ScopePatternMatches(lines[i], name)
    THEN CHOOSE i \in 1..Len(lines) :
            /\ ScopePatternMatches(lines[i], name)
            /\ \A j \in 1..(i - 1) : ~ScopePatternMatches(lines[j], name)
    ELSE 0

RECURSIVE ScopeLoop(_, _, _, _, _)
\* the loop from class_start_line on: the line numbers (1-based) collected
ScopeLoop(lines, i, brace_count, in_class, acc) ==
    IF i > Len(lines) THEN acc
    ELSE LET opened == lines[i].opens > 0
             count1 == IF opened THEN brace_count + lines[i].opens
                       ELSE brace_count
             inside == in_class \/ opened
             acc1 == IF inside THEN Append(acc, i) ELSE acc
             count2 == IF lines[i].closes > 0 THEN count1 - lines[i].closes
                       ELSE count1
         IN  IF inside /\ count2 <= 0 THEN acc1
             ELSE ScopeLoop(lines, i + 1, count2, inside, acc1)

\* extract_class_scope: the numbers of the lines of the scope, in order
extract_class_scope(lines, class_name) ==
    IF ClassStartLine(lines, class_name) = 0 THEN <<>>
    ELSE ScopeLoop(lines, ClassStartLine(lines, class_name), 0, FALSE, <<>>)

has_legitimate_class_usage(lines, scope, other) ==
    \E k \in 1..Len(scope) : LegitimateUsage(lines[scope[k]], other)

(***************************************************************************)
(* Class analysis, second pass: one step handles one class of one unit.    *)
(***************************************************************************)
\* current_file_classes: the known classes of the unit's namespace that the
\* content declares, in the order of the table
CurrentFileClasses(table, lines) ==
    SelectSeq(table.keys,
              LAMBDA n : /\ table.ns[n] = NamespaceOf(lines)
                         /\ DeclaredInContent(lines, n))

RECURSIVE Worklist(_, _, _)
\* the (unit, class) pairs the second pass handles, in its order
Worklist(table, us, u) ==
    IF u > Len(us) THEN <<>>
    ELSE LET cur == CurrentFileClasses(table, us[u])
         IN  [k \in 1..Len(cur) |-> <<u, cur[k]>>] \o Worklist(table, us, u + 1)

\* the namespace of other is the unit's, one it imports, or "Global"
NamespaceAvailable(table, lines, other) ==
    \/ table.ns[other] = NamespaceOf(lines)
    \/ table.ns[other] \in CustomUsings(lines)
    \/ table.ns[other] = "Global"

\* the reasons the scan of the scope finds for other, in line order:
\* <<description, unit, line number>> per matching line
ScopeReasons(lines, scope, other, u) ==
    LET hits == SelectSeq(scope, LAMBDA n : ClassUsage(lines[n], other) # "")
    IN  [k \in 1..Len(hits) |-> <<ClassUsage(lines[hits[k]], other), u, hits[k]>>]

\* variant: the self-reference is not skipped
ClassTargets_with_self(table, lines, name, u) ==
    LET scope == extract_class_scope(lines, name)
        cur == Range(CurrentFileClasses(table, lines))
    IN  SelectSeq(table.keys,
            LAMBDA other :
                /\ (other \in cur
                      /\ FullName(table, other) # FullName(table, name)
                       => has_legitimate_class_usage(lines, scope, other))
                /\ NamespaceAvailable(table, lines, other)
                /\ ScopeReasons(lines, scope, other, u) # <<>>)

\* the other classes for which the class `name` of unit u gets an edge, in the
\* order of the table
ClassTargets(table, lines, name, u) ==
    LET scope == extract_class_scope(lines, name)
        cur == Range(CurrentFileClasses(table, lines))
    IN  SelectSeq(table.keys,
            LAMBDA other :
                /\ FullName(table, other) # FullName(table, name)
                /\ (other \in cur
                      /\ FullName(table, other) # FullName(table, name)
                       => has_legitimate_class_usage(lines, scope, other))
                /\ NamespaceAvailable(table, lines, other)
                /\ ScopeReasons(lines, scope, other, u) # <<>>)

RECURSIVE DetailChoices_specific_only(_, _)
\* variant: a 'general reference' is not recorded as a reason, and a target
\* left without reasons gets no entry
DetailChoices_specific_only(targets, reasonsOf) ==
    IF targets = <<>> THEN {<<>>}
    ELSE LET specific == SelectSeq(reasonsOf[Head(targets)],
                                   LAMBDA r : r[1] # "general reference")
         IN  {(IF r = <<>> THEN <<>> ELSE <<<<Head(targets), r>>>>) \o rest :
                 r \in Perms(specific),
                 rest \in DetailChoices_specific_only(Tail(targets), reasonsOf)}

RECURSIVE DetailChoices(_, _)
\* the lists [(target, list(set(reasons))), ...]: the targets in the given
\* order, each with its reasons in any order
DetailChoices(targets, reasonsOf) ==
    IF targets = <<>> THEN {<<>>}
    ELSE {<<<<Head(targets), r>>>> \o rest :
             r \in Perms(reasonsOf[Head(targets)]),
             rest \in DetailChoices(Tail(targets), reasonsOf)}

\* dependencies[key] = value: a new key goes last, a known key keeps its place
Assign(deps, key, value) ==
    [keys |-> IF key \in Range(deps.keys) THEN deps.keys
              ELSE Append(deps.keys, key),
     to   |-> (key :> value) @@ deps.to]

\* dependency_details[key] = value
AssignDetails(details, key, value) == (key :> value) @@ details

ClassWork == Worklist(all_classes, units, 1)

ClassSecondPass ==
    /\ phase = "pass2"
    /\ mode = "class"
    /\ upos <= Len(ClassWork)
    /\ LET u == ClassWork[upos][1]
           name == ClassWork[upos][2]
           full == FullName(all_classes, name)
           others == ClassTargets(all_classes, units[u], name, u)
           scope == extract_class_scope(units[u], name)
           class_deps == [k \in 1..Len(others) |-> FullName(all_classes, others[k])]
           reasonsOf == [t \in Range(class_deps) |->
                           ScopeReasons(units[u], scope, t[2], u)]
       IN  IF class_deps = <<>>
           THEN UNCHANGED <<dependencies, dependency_details>>
           ELSE /\ \E order \in Perms(class_deps) :
                      dependencies' = Assign(dependencies, full, order)
                /\ \E d \in DetailChoices(class_deps, reasonsOf) :
                      dependency_details' =
                          AssignDetails(dependency_details, full, d)
    /\ upos' = upos + 1
    /\ phase' = IF upos = Len(ClassWork) THEN "analyzed" ELSE "pass2"
    /\ UNCHANGED <<mode, units, all_classes, system_classes, all_systems,
                   namespace_usings>>
    /\ UNCHANGED <<detectorVars, renderVars>>

\* the first pass over all units
ClassFirstPass ==
    /\ TreeWritten
    /\ mode = "class"
    /\ all_classes' = CollectAllClasses(all_classes, units, 1)
    /\ upos' = 1
    /\ phase' = IF Worklist(all_classes', units, 1) = <<>> THEN "analyzed"
                ELSE "pass2"
    /\ UNCHANGED <<mode, units, system_classes, all_systems, namespace_usings,
                   dependencies, dependency_details>>
    /\ UNCHANGED <<detectorVars, renderVars>>

(***************************************************************************)
(* System analysis.                                                        *)
(***************************************************************************)
\* system_patterns[0] matches the declaration on line i: a name containing
\* "System", followed by ':' or by '{' (\s*{ also reaches a '{' that stands
\* at the start of the next line)
SystemPattern1(lines, i) ==
    /\ lines[i].kind = "class"
    /\ lines[i].name \in SystemNamed
    /\ \/ lines[i].base # ""
       \/ lines[i].opens > 0
       \/ /\ i < Len(lines)
          /\ lines[i + 1].kind = "brace"
          /\ lines[i + 1].opens > 0

\* system_patterns[1] and [2]: any name declared with ': ... ISystem'
SystemPattern2(lines, i) ==
    /\ lines[i].kind = "class"
    /\ lines[i].base = "ISystem"

\* the names re.findall yields over the patterns, in order
SystemMatches(lines) ==
    LET all == [i \in 1..Len(lines) |-> i]
        m1 == SelectSeq(all, LAMBDA i : SystemPattern1(lines, i))
        m2 == SelectSeq(all, LAMBDA i : SystemPattern2(lines, i))
    IN  [k \in 1..Len(m1 \o m2) |-> lines[(m1 \o m2)[k]].name]

RECURSIVE PutSystems(_, _, _, _)
\* system_classes[class_name] = (namespace, full_name) for the matches
PutSystems(table, names, ns, k) ==
    IF k > Len(names) THEN table
    ELSE IF names[k] \in HelperSuffixed
    THEN PutSystems(table, names, ns, k + 1)
    ELSE PutSystems(PutClass(table, names[k], ns), names, ns, k + 1)

RECURSIVE CollectAllSystems(_, _, _)
CollectAllSystems(table, us, u) ==
    IF u > Len(us) THEN table
    ELSE CollectAllSystems(
             PutSystems(table, SystemMatches(us[u]), NamespaceOf(us[u]), 1),
             us, u + 1)

\* all_systems: every qualified name added in the first pass
AllSystemNames(us) ==
    UNION {{<<NamespaceOf(us[u]), n>> :
               n \in Range(SystemMatches(us[u])) \ HelperSuffixed} :
           u \in 1..Len(us)}

\* the reasons the scan of the whole unit finds for other, in line order
UnitReasons(lines, other, u) ==
    LET hits == SelectSeq([i \in 1..Len(lines) |-> i],
                          LAMBDA n : SystemUsage(lines[n], other) # "")
    IN  [k \in 1..Len(hits) |-> <<SystemUsage(lines[hits[k]], other), u, hits[k]>>]

SystemTargets(table, lines, name, u) ==
    SelectSeq(table.keys,
        LAMBDA other :
            /\ FullName(table, other) # FullName(table, name)
            /\ NamespaceAvailable(table, lines, other)
            /\ UnitReasons(lines, other, u) # <<>>)

SystemFirstPass ==
    /\ TreeWritten
    /\ mode = "system"
    /\ system_classes' = CollectAllSystems(system_classes, units, 1)
    /\ all_systems' = AllSystemNames(units)
    /\ upos' = 1
    /\ phase' = IF Worklist(system_classes', units, 1) = <<>> THEN "pass3"
                ELSE "pass2"
    /\ UNCHANGED <<mode, units, all_classes, namespace_usings, dependencies,
                   dependency_details>>
    /\ UNCHANGED <<detectorVars, renderVars>>

SystemWork == Worklist(system_classes, units, 1)

SystemSecondPass ==
    /\ phase = "pass2"
    /\ mode = "system"
    /\ upos <= Len(SystemWork)
    /\ LET u == SystemWork[upos][1]
           name == SystemWork[upos][2]
           full == FullName(system_classes, name)
           others == SystemTargets(system_classes, units[u], name, u)
           system_deps ==
               [k \in 1..Len(others) |-> FullName(system_classes, others[k])]
           reasonsOf == [t \in Range(system_deps) |->
                           UnitReasons(units[u], t[2], u)]
       IN  /\ \E order \in Perms(system_deps) :
                 dependencies' = Assign(dependencies, full, order)
           /\ IF system_deps = <<>>
              THEN UNCHANGED dependency_details
              ELSE \E d \in DetailChoices(system_deps, reasonsOf) :
                      dependency_details' =
                          AssignDetails(dependency_details, full, d)
    /\ upos' = upos + 1
    /\ phase' = IF upos = Len(SystemWork) THEN "pass3" ELSE "pass2"
    /\ UNCHANGED <<mode, units, all_classes, system_classes, all_systems,
                   namespace_usings>>
    /\ UNCHANGED <<detectorVars, renderVars>>

RECURSIVE AssignEmpty(_, _, _)
\* dependencies[system] = [] for the systems of the sequence, from k on
AssignEmpty(deps, systems, k) ==
    IF k > Len(systems) THEN deps
    ELSE AssignEmpty(Assign(deps, systems[k], <<>>), systems, k + 1)

\* all orderings of a finite set
Orderings(S) ==
    {p \in [1..Cardinality(S) -> S] :
        \A i, j \in 1..Cardinality(S) : i # j => p[i] # p[j]}

\* the last loop: the systems that are no key yet, in the order of the set
SystemStandalone ==
    /\ phase = "pass3"
    /\ mode = "system"
    /\ \E rest \in Orderings(all_systems \ Range(dependencies.keys)) :
          dependencies' = AssignEmpty(dependencies, rest, 1)
    /\ phase' = "analyzed"
    /\ UNCHANGED <<mode, units, all_classes, system_classes, all_systems,
                   namespace_usings, dependency_details, upos>>
    /\ UNCHANGED <<detectorVars, renderVars>>

(***************************************************************************)
(* Namespace analysis.                                                     *)
(***************************************************************************)
\* namespace_usings[namespace][target].append(place)
AddUsing(table, ns, target, place) ==
    LET inner == IF ns \in Range(table.keys) THEN table.to[ns]
                 ELSE [keys |-> <<>>, files |-> <<>>]
        files == IF target \in Range(inner.keys) THEN inner.files[target]
                 ELSE <<>>
        inner1 == [keys  |-> IF target \in Range(inner.keys) THEN inner.keys
                             ELSE Append(inner.keys, target),
                   files |-> (target :> Append(files, place)) @@ inner.files]
    IN  [keys |-> IF ns \in Range(table.keys) THEN table.keys
                  ELSE Append(table.keys, ns),
         to   |-> (ns :> inner1) @@ table.to]

RECURSIVE ScanUsings(_, _, _, _)
\* the loop over the lines of unit u, from line i on
ScanUsings(table, lines, u, i) ==
    IF i > Len(lines) THEN table
    ELSE IF /\ lines[i].kind = "using"
            /\ lines[i].name \notin FrameworkNamespaces
            /\ lines[i].name # NamespaceOf(lines)
    THEN ScanUsings(AddUsing(table, NamespaceOf(lines), lines[i].name,
                             <<"", u, i>>),
                    lines, u, i + 1)
    ELSE ScanUsings(table, lines, u, i + 1)

\* first pass, one unit: a unit without a namespace is skipped
NamespaceScan ==
    /\ TreeWritten \/ phase = "pass1"
    /\ mode = "namespace"
    /\ upos <= Len(units)
    /\ phase' = "pass1"
    /\ namespace_usings' =
          IF NamespaceOf(units[upos]) = "Global" THEN namespace_usings
          ELSE ScanUsings(namespace_usings, units[upos], upos, 1)
    /\ upos' = upos + 1
    /\ UNCHANGED <<mode, units, all_classes, system_classes,
                   all_systems, dependencies, dependency_details>>
    /\ UNCHANGED <<detectorVars, renderVars>>

RECURSIVE BuildNamespaces(_, _, _)
\* dependencies[namespace] = list(targets.keys()), from key k on
BuildNamespaces(deps, table, k) ==
    IF k > Len(table.keys) THEN deps
    ELSE BuildNamespaces(
             Assign(deps, table.keys[k], table.to[table.keys[k]].keys),
             table, k + 1)

\* dependency_details[namespace] = [(target, files), ...]
NamespaceDetails(table) ==
    [ns \in Range(table.keys) |->
        [k \in 1..Len(table.to[ns].keys) |->
            <<table.to[ns].keys[k], table.to[ns].files[table.to[ns].keys[k]]>>]]

NamespaceBuild ==
    /\ phase = "pass1"
    /\ mode = "namespace"
    /\ upos > Len(units)
    /\ dependencies' = BuildNamespaces(dependencies, namespace_usings, 1)
    /\ dependency_details' = NamespaceDetails(namespace_usings)
    /\ phase' = "analyzed"
    /\ UNCHANGED <<mode, units, all_classes, system_classes, all_systems,
                   namespace_usings, upos>>
    /\ UNCHANGED <<detectorVars, renderVars>>

(***************************************************************************)
(* The source tree the analyzers read: written unit by unit, line by line. *)
(***************************************************************************)
\* the lines a unit may hold
Vocabulary(m) ==
    IF m = "namespace"
    THEN {NamespaceLine(n) : n \in Namespaces}
         \cup {UsingLine(n) : n \in Namespaces}
         \cup {BraceLine(1, 0)}
    ELSE {ClassLine(x, "", o) : x \in SystemNamed, o \in {0, 1}}
         \cup {ClassLine(p[1], p[2], 1) :
                  p \in {q \in SystemNamed \X SystemNamed : q[1] # q[2]}}
         \cup {NewLine(x) : x \in SystemNamed}
         \cup {ClassLine("Helper", "", 1)}
         \cup {BraceLine(1, 0), BraceLine(0, 1)}
         \cup {NamespaceLine("Game"), UsingLine("Game")}

RECURSIVE TotalLines(_)
TotalLines(us) == IF us = <<>> THEN 0 ELSE Len(Head(us)) + TotalLines(Tail(us))

NewUnit ==
    /\ phase = "write"
    /\ Len(units) < MaxUnits
    /\ IF units = <<>> THEN TRUE ELSE units[Len(units)] # <<>>
    /\ TotalLines(units) < MaxLines
    /\ units' = Append(units, <<>>)
    /\ UNCHANGED <<phase, mode, all_classes, system_classes, all_systems,
                   namespace_usings, dependencies, dependency_details, upos>>
    /\ UNCHANGED <<detectorVars, renderVars>>

WriteLine(l) ==
    /\ phase = "write"
    /\ units # <<>>
    /\ TotalLines(units) < MaxLines
    /\ units' = [units EXCEPT ![Len(units)] = Append(@, l)]
    /\ UNCHANGED <<phase, mode, all_classes, system_classes, all_systems,
                   namespace_usings, dependencies, dependency_details, upos>>
    /\ UNCHANGED <<detectorVars, renderVars>>

IdleDetector ==
    /\ circular_deps = {}
    /\ circular_nodes = {}
    /\ visited = {}
    /\ rec_stack = {}
    /\ stack = <<>>
    /\ retval = "none"
    /\ root = 1
    /\ truly_circular_deps = {}
    /\ run = 1
    /\ first_result = {}
    /\ fallback_deps = {}

InitAnalysis ==
    /\ phase = "write"
    /\ mode \in {"namespace", "class", "system"}
    /\ units = <<>>
    /\ all_classes = [keys |-> <<>>, ns |-> <<>>]
    /\ system_classes = [keys |-> <<>>, ns |-> <<>>]
    /\ all_systems = {}
    /\ namespace_usings = [keys |-> <<>>, to |-> <<>>]
    /\ dependencies = EmptyDeps
    /\ dependency_details = <<>>
    /\ upos = 1
    /\ IdleDetector
    /\ IdleRender

NextAnalysis ==
    \/ NewUnit
    \/ \E l \in Vocabulary(mode) : WriteLine(l)
    \/ NamespaceScan
    \/ NamespaceBuild
    \/ ClassFirstPass
    \/ ClassSecondPass
    \/ SystemFirstPass
    \/ SystemSecondPass
    \/ SystemStandalone

SpecAnalysis == InitAnalysis /\ [][NextAnalysis]_vars

(***************************************************************************)
(* Notions used to state the properties of the analyzers.                  *)
(***************************************************************************)
\* the target lists hold no key itself
NoSelfEdge(deps) ==
    \A k \in Range(deps.keys) : k \notin Range(deps.to[k])

\* the reasons recorded for the edge key -> target (none when no entry)
ReasonsOf(details, key, target) ==
    IF key \in DOMAIN details
    THEN UNION {Range(details[key][k][2]) :
                   k \in {m \in 1..Len(details[key]) :
                            details[key][m][1] = target}}
    ELSE {}

\* the raw (source, target, reason) triples the scanner yields from unit u
RawTriples(u) ==
    IF mode = "class"
    THEN UNION {UNION {{<<FullName(all_classes, n), FullName(all_classes, o), r>> :
                          r \in Range(ScopeReasons(units[u],
                                        extract_class_scope(units[u], n), o, u))} :
                       o \in Range(ClassTargets(all_classes, units[u], n, u))} :
                n \in Range(CurrentFileClasses(all_classes, units[u]))}
    ELSE IF mode = "system"
    THEN UNION {UNION {{<<FullName(system_classes, n), FullName(system_classes, o), r>> :
                          r \in Range(UnitReasons(units[u], o, u))} :
                       o \in Range(SystemTargets(system_classes, units[u], n, u))} :
                n \in Range(CurrentFileClasses(system_classes, units[u]))}
    ELSE IF NamespaceOf(units[u]) = "Global" THEN {}
    ELSE {<<NamespaceOf(units[u]), units[u][i].name, <<"", u, i>>>> :
             i \in {j \in 1..Len(units[u]) :
                      /\ units[u][j].kind = "using"
                      /\ units[u][j].name \notin FrameworkNamespaces
                      /\ units[u][j].name # NamespaceOf(units[u])}}

RECURSIVE DepthReturns(_, _, _, _, _)
\* the first line at or after i at which the running brace depth is back at
\* zero after having been positive (Len(lines) when there is none)
DepthReturns(lines, i, depth, positive, last) ==
    IF i > Len(lines) THEN last
    ELSE LET d == depth + BraceDelta(lines[i])
             pos == positive \/ depth + lines[i].opens > 0
         IN  IF pos /\ d <= 0 THEN i
             ELSE DepthReturns(lines, i + 1, d, pos, last)

\* the lexical scope of the declaration on line d: the lines from d through
\* the line at which the brace depth returns to zero
LexicalScope(lines, d) == d..DepthReturns(lines, d, 0, FALSE, Len(lines))

\* the lines of the unit that lie in the scope of some declaration of name
ScopeLinesOf(lines, name) ==
    UNION {LexicalScope(lines, d) :
              d \in {i \in 1..Len(lines) : DeclaredName(lines[i]) = name}}

\* the positions (unit, line) that declare the name
Declarations(name) ==
    {p \in UNION {{<<u, i>> : i \in 1..Len(units[u])} : u \in 1..Len(units)} :
        DeclaredName(units[p[1]][p[2]]) = name}

(***************************************************************************)
(* Properties of the analyzers.                                            *)
(***************************************************************************)

\* C6: in every mode, at every point of the analysis, no symbol's target
\* list holds the symbol's own qualified name.
C6_NoSelfEdge == NoSelfEdge(dependencies)

\* C6 witness: a class analysis has ended with an edge whose source's scope
\* holds the source's own name (its declaration line).
C6_Witness ==
    /\ phase = "analyzed"
    /\ mode = "class"
    /\ \E k \in Range(dependencies.keys) :
          /\ dependencies.to[k] # <<>>
          /\ \E u \in 1..Len(units) :
                \E n \in Range(extract_class_scope(units[u], k[2])) :
                    ClassUsage(units[u][n], k[2]) # ""

\* C7: when the analysis has ended, every raw triple the scanner yields from
\* any unit is in the graph: the target in the source's target list, the
\* reason in the reason list of that edge.
C7_EveryTripleKept ==
    phase = "analyzed" =>
        \A u \in 1..Len(units) : \A t \in RawTriples(u) :
            /\ t[1] \in Range(dependencies.keys)
            /\ t[2] \in Range(Get(dependencies, t[1]))
            /\ t[3] \in ReasonsOf(dependency_details, t[1], t[2])

\* C8: in the class and the system analysis, every reason recorded for a
\* source symbol S names a line of the lexical scope of a declaration of S.
C8_ReasonsFromScopeOnly ==
    mode \in {"class", "system"} =>
        \A key \in DOMAIN dependency_details :
            \A k \in 1..Len(dependency_details[key]) :
                \A r \in Range(dependency_details[key][k][2]) :
                    r[3] \in ScopeLinesOf(units[r[2]], key[2])

\* C9: after the first pass of the class analysis, for a declaration Inner
\* inside the still-open braces of a declaration Outer fewer than 50 lines
\* above it (each name declared once, Outer itself inside no other
\* declaration), the table holds Outer and does not hold Inner.
C9_NestedExcluded ==
    (mode = "class" /\ phase \in {"pass2", "analyzed"}) =>
        \A u \in 1..Len(units) : \A j, i \in 1..Len(units[u]) :
            (/\ j < i
             /\ i - j < LookBack
             /\ DeclaredName(units[u][j]) # ""
             /\ DeclaredName(units[u][i]) # ""
             /\ i \in LexicalScope(units[u], j)
             /\ BraceBalance(units[u], j, i - 1) > 0
             /\ Declarations(DeclaredName(units[u][j])) = {<<u, j>>}
             /\ Declarations(DeclaredName(units[u][i])) = {<<u, i>>}
             /\ \A h \in 1..(j - 1) :
                   DeclaredName(units[u][h]) # ""
                      => j \notin LexicalScope(units[u], h))
            => /\ DeclaredName(units[u][j]) \in Range(all_classes.keys)
               /\ DeclaredName(units[u][i]) \notin Range(all_classes.keys)

(***************************************************************************)
(* The renderer, generate_dot_content.  Texts are sequences of characters. *)
(* The rendered text is kept as its entries: the node entries              *)
(*   "<name>" [fillcolor=<fillcolor>];                                     *)
(* and the edge entries                                                    *)
(*   "<from>" -> "<to>" [color=<color>, label="<label>"];                  *)
(* an edge entry without label attribute has label = <<>>.                 *)
(***************************************************************************)
QUOTE == "\""
LF == "\n"
BACKSLASH == "\\"

RECURSIVE Replace(_, _, _)
\* str.replace(old, new) for a single character old
Replace(text, old, new) ==
    IF text = <<>> THEN <<>>
    ELSE (IF Head(text) = old THEN new ELSE <<Head(text)>>)
            \o Replace(Tail(text), old, new)

DigitChar == <<"0", "1", "2", "3", "4", "5", "6", "7", "8", "9">>

RECURSIVE Digits(_)
\* str(n) of a natural number, as an f-string formats it
Digits(n) ==
    IF n < 10 THEN <<DigitChar[n + 1]>>
    ELSE Digits(n \div 10) \o <<DigitChar[(n % 10) + 1]>>

RECURSIVE Join(_, _)
\* sep.join(texts)
Join(sep, texts) ==
    IF texts = <<>> THEN <<>>
    ELSE IF Len(texts) = 1 THEN texts[1]
    ELSE texts[1] \o sep \o Join(sep, Tail(texts))

\* reasons[:2]
FirstTwo(reasons) == SubSeq(reasons, 1, IF Len(reasons) < 2 THEN Len(reasons) ELSE 2)

\* variant: the list is cut only above three reasons
Label_cut_above_three(reasons) ==
    LET label == IF Len(reasons) <= 3
                 THEN Join(<<BACKSLASH, "n">>, FirstTwo(reasons))
                 ELSE reasons[1] \o <<BACKSLASH, "n">>
                        \o <<".", ".", ".", "a", "n", "d", " ">>
                        \o Digits(Len(reasons) - 1)
                        \o <<" ", "m", "o", "r", "e">>
    IN  Replace(Replace(label, QUOTE, <<BACKSLASH, QUOTE>>),
                LF, <<BACKSLASH, "n">>)

\* the label of an edge with the given reasons
Label(reasons) ==
    LET label == IF Len(reasons) <= 2
                 THEN Join(<<BACKSLASH, "n">>, FirstTwo(reasons))
                 ELSE reasons[1] \o <<BACKSLASH, "n">>
                        \o <<".", ".", ".", "a", "n", "d", " ">>
                        \o Digits(Len(reasons) - 1)
                        \o <<" ", "m", "o", "r", "e">>
    IN  Replace(Replace(label, QUOTE, <<BACKSLASH, QUOTE>>),
                LF, <<BACKSLASH, "n">>)

\* the positions of the entries for the target in a list of (target, reasons)
EntriesFor(entries, target) ==
    {k \in 1..Len(entries) : entries[k][1] = target}

\* the label the edge loop computes for from_ns -> to_ns ("" is <<>>)
EdgeLabel(circular, details, from_ns, to_ns) ==
    IF <<from_ns, to_ns>> \in circular
       /\ details # <<>>
       /\ from_ns \in DOMAIN details
       /\ EntriesFor(details[from_ns], to_ns) # {}
    THEN LET k == CHOOSE m \in EntriesFor(details[from_ns], to_ns) :
                     \A h \in EntriesFor(details[from_ns], to_ns) : m <= h
         IN  Label(details[from_ns][k][2])
    ELSE <<>>

\* the edge entry for from_ns -> to_ns
EdgeEntry(circular, details, from_ns, to_ns) ==
    [from  |-> Replace(from_ns, QUOTE, <<BACKSLASH, QUOTE>>),
     to    |-> Replace(to_ns, QUOTE, <<BACKSLASH, QUOTE>>),
     color |-> IF <<from_ns, to_ns>> \in circular THEN "red" ELSE "darkgreen",
     label |-> EdgeLabel(circular, details, from_ns, to_ns)]

RECURSIVE EdgeList(_, _)
\* the edges in the order 'for from_ns, to_list in dependencies.items(): for
\* to_ns in to_list' visits them, from the k-th key on
EdgeList(deps, k) ==
    IF k > Len(deps.keys) THEN <<>>
    ELSE [i \in 1..Len(deps.to[deps.keys[k]]) |->
             <<deps.keys[k], deps.to[deps.keys[k]][i]>>]
         \o EdgeList(deps, k + 1)

\* the endpoints of the circular edges
CircularNodes(circular) == {e[1] : e \in circular} \cup {e[2] : e \in circular}

\* variant: the endpoints of the circular edges are nodes as well
AllNodes_with_circular(deps) ==
    Range(deps.keys) \cup UNION {Range(deps.to[k]) : k \in Range(deps.keys)}
        \cup UNION {{e[1], e[2]} : e \in truly_circular_deps}

\* the keys and the targets of the mapping
AllNodes(deps) ==
    Range(deps.keys) \cup UNION {Range(deps.to[k]) : k \in Range(deps.keys)}

\* the node entry of a node
NodeEntry(circular, node) ==
    [name      |-> Replace(node, QUOTE, <<BACKSLASH, QUOTE>>),
     fillcolor |-> IF node \in CircularNodes(circular)
                   THEN "lightcoral" ELSE "lightgreen"]

\* the rendered texts: the node entries in any order of the set all_nodes,
\* the edge entries in the order of the mapping
generate_dot_content(deps, circular, details) ==
    {[nodes |-> [i \in 1..Len(order) |-> NodeEntry(circular, order[i])],
      edges |-> [i \in 1..Len(EdgeList(deps, 1)) |->
                    EdgeEntry(circular, details,
                              EdgeList(deps, 1)[i][1], EdgeList(deps, 1)[i][2])]] :
        order \in Orderings(AllNodes(deps))}

Render ==
    /\ phase = "render"
    /\ dot_content' \in generate_dot_content(dependencies, truly_circular_deps,
                                             dependency_details)
    /\ phase' = "rendered"
    /\ UNCHANGED <<dependencies, detectorVars, analysisVars>>

(***************************************************************************)
(* The arguments of the renderer.  The names are qualified names as the    *)
(* analyzers build them; a reason is a description with the place          *)
(* (file:line), and a file name may hold a quote or a line feed.           *)
(***************************************************************************)
RenderNames == {<<"G", ".", "A">>, <<"G", ".", "B">>}

\* the k-th reason: "ref (<file>:<k>)" with the file name f, f" or f<LF>
Reason(k) ==
    <<"r", "e", "f", " ", "(", "f">>
      \o (IF k % 3 = 2 THEN <<QUOTE>> ELSE IF k % 3 = 0 THEN <<LF>> ELSE <<>>)
      \o <<":">> \o Digits(k) \o <<")">>

\* no entry (<<>>), or n reasons, the first of them Reason(1) or Reason(2)
ReasonLists ==
    {<<>>} \cup {[i \in 1..n |-> Reason(b + i)] : n \in 1..MaxReasons, b \in {0, 1}}

\* the duplicate-free sequences over a set
DistinctSeqs(S) == UNION {Orderings(T) : T \in SUBSET S}

RenderGraphs ==
    {g \in UNION {[keys : {k}, to : [Range(k) -> DistinctSeqs(RenderNames)]] :
                    k \in DistinctSeqs(RenderNames)} :
        NumEdges(g) <= MaxRenderEdges}

RECURSIVE EntryList(_, _)
\* the entries (target, reasons) of one source: its targets with reasons
EntryList(targets, choice) ==
    IF targets = <<>> THEN <<>>
    ELSE (IF choice[Head(targets)] = <<>> THEN <<>>
          ELSE <<<<Head(targets), choice[Head(targets)]>>>>)
         \o EntryList(Tail(targets), choice)

\* the detail mapping that gives the edge e the reasons choice[e]; a source
\* without any reason is no key of it
DetailsOf(deps, choice) ==
    LET entries(s) == EntryList(deps.to[s], [t \in Range(deps.to[s]) |-> choice[<<s, t>>]])
    IN  [s \in {k \in Range(deps.keys) : entries(k) # <<>>} |-> entries(s)]

InitRender ==
    /\ phase = "render"
    /\ dependencies \in RenderGraphs
    /\ truly_circular_deps \in SUBSET (RenderNames \X RenderNames)
    /\ dependency_details \in
          {DetailsOf(dependencies, c) : c \in [EdgeSet(dependencies) -> ReasonLists]}
    /\ circular_deps = {}
    /\ circular_nodes = {}
    /\ visited = {}
    /\ rec_stack = {}
    /\ stack = <<>>
    /\ retval = "none"
    /\ root = 1
    /\ run = 1
    /\ first_result = {}
    /\ fallback_deps = {}
    /\ mode = "none"
    /\ units = <<>>
    /\ all_classes = [keys |-> <<>>, ns |-> <<>>]
    /\ system_classes = [keys |-> <<>>, ns |-> <<>>]
    /\ all_systems = {}
    /\ namespace_usings = [keys |-> <<>>, to |-> <<>>]
    /\ upos = 1
    /\ IdleRender

NextRender == Render

SpecRender == InitRender /\ [][NextRender]_vars

(***************************************************************************)
(* Properties of the renderer.                                             *)
(***************************************************************************)
\* the reasons recorded for the edge (<<>> when there is no entry)
RecordedReasons(e) ==
    IF dependency_details # <<>> /\ e[1] \in DOMAIN dependency_details
       /\ EntriesFor(dependency_details[e[1]], e[2]) # {}
    THEN dependency_details[e[1]][CHOOSE m \in EntriesFor(dependency_details[e[1]], e[2]) : TRUE][2]
    ELSE <<>>

\* a reason as it is written between the quotes of the label attribute
Escaped(reason) ==
    [i \in 1..Len(reason) |->
        IF reason[i] = QUOTE THEN <<BACKSLASH, QUOTE>>
        ELSE IF reason[i] = LF THEN <<BACKSLASH, "n">>
        ELSE <<reason[i]>>]

RECURSIVE Flatten(_)
Flatten(parts) == IF parts = <<>> THEN <<>> ELSE Head(parts) \o Flatten(Tail(parts))

EscapedNewline == <<BACKSLASH, "n">>

\* the count text of the cut label, for the list lengths of the model
AndMore(n) ==
    <<".", ".", ".", "a", "n", "d", " ">> \o Digits(n) \o <<" ", "m", "o", "r", "e">>

\* the label stated for a reason list r, each reason written by form
StatedLabel(r, form(_)) ==
    IF Len(r) = 1 THEN form(r[1])
    ELSE IF Len(r) = 2 THEN form(r[1]) \o EscapedNewline \o form(r[2])
    ELSE form(r[1]) \o EscapedNewline \o AndMore(Len(r) - 1)

\* the edges are rendered in the order of the mapping, a label only on a
\* circular edge, a circular edge with reasons r labelled StatedLabel(r)
LabelsAsStated(form(_)) ==
    phase = "rendered" =>
        LET edges == EdgeList(dependencies, 1)
        IN  /\ Len(dot_content.edges) = Len(edges)
            /\ \A k \in 1..Len(edges) :
                  LET e == dot_content.edges[k]
                      r == RecordedReasons(edges[k])
                  IN  /\ e.label # <<>> => edges[k] \in truly_circular_deps
                      /\ edges[k] \notin truly_circular_deps
                            => e.color = "darkgreen" /\ e.label = <<>>
                      /\ (edges[k] \in truly_circular_deps /\ r # <<>>)
                            => e.color = "red" /\ e.label = StatedLabel(r, form)

Verbatim(reason) == reason
AsEscaped(reason) == Flatten(Escaped(reason))

\* C10 as stated: only a circular edge carries a label; with reasons r the
\* label is r[0] (one reason), r[0] and r[1] joined by an escaped newline
\* (two), r[0], an escaped newline and '...and (|r|-1) more' (three or
\* more), the reasons verbatim; a non-circular edge has a colour and no label.
C10_LabelVerbatim == LabelsAsStated(Verbatim)

\* C10 amended: the same, each reason written escaped (a quote as \", a line
\* feed as \n) between the quotes of the label attribute.
C10_LabelEscaped == LabelsAsStated(AsEscaped)

\* C10 witness: a rendered graph with a labelled circular edge of three or
\* more reasons whose first reason holds a quote, and a non-circular edge.
C10_Witness ==
    /\ phase = "rendered"
    /\ \E k \in 1..Len(dot_content.edges) :
          /\ EdgeList(dependencies, 1)[k] \in truly_circular_deps
          /\ Len(RecordedReasons(EdgeList(dependencies, 1)[k])) >= 3
          /\ QUOTE \in Range(RecordedReasons(EdgeList(dependencies, 1)[k])[1])
          /\ dot_content.edges[k].label # <<>>
    /\ \E k \in 1..Len(dot_content.edges) :
          EdgeList(dependencies, 1)[k] \notin truly_circular_deps

\* the symbols of the graph: the sources and the targets
Symbols(deps) == Range(deps.keys) \cup {e[2] : e \in EdgeSet(deps)}

\* the positions of the node entries written for the name
NodeEntriesOf(name) ==
    {i \in 1..Len(dot_content.nodes) : dot_content.nodes[i].name = name}

\* C11: the rendered text has exactly one node entry for every key and every
\* target of the mapping and no node entry for any other name (an endpoint
\* of a circular edge adds none); every rendered edge joins two rendered
\* nodes.
C11_NodesAreSymbols ==
    phase = "rendered" =>
        /\ \A n \in Symbols(dependencies) : Cardinality(NodeEntriesOf(n)) = 1
        /\ \A i \in 1..Len(dot_content.nodes) :
              dot_content.nodes[i].name \in Symbols(dependencies)
        /\ \A k \in 1..Len(dot_content.edges) :
              /\ NodeEntriesOf(dot_content.edges[k].from) # {}
              /\ NodeEntriesOf(dot_content.edges[k].to) # {}

\* C11 witness: a rendered graph in which a key with an empty target list
\* has its node entry and a circular edge has an endpoint that is no symbol
\* of the graph.
C11_Witness ==
    /\ phase = "rendered"
    /\ \E k \in Range(dependencies.keys) :
          dependencies.to[k] = <<>> /\ NodeEntriesOf(k) # {}
    /\ \E e \in truly_circular_deps :
          e[1] \notin Symbols(dependencies) \/ e[2] \notin Symbols(dependencies)

\* the source symbols of the raw triples of a unit
SourcesOf(u) == {t[1] : t \in RawTriples(u)}

\* C12: in every mode, at every point of the analysis, every edge s -> t of
\* the graph has an entry for t in the detail mapping of s, with a non-empty
\* reason list.
C12_EveryEdgeHasReasons ==
    \A e \in EdgeSet(dependencies) :
        ReasonsOf(dependency_details, e[1], e[2]) # {}

\* C12 witness: an ended analysis of the classes or systems in which a symbol
\* with an edge yields triples from two units, the later unit having
\* re-assigned its target list.
C12_Witness ==
    /\ phase = "analyzed"
    /\ mode \in {"class", "system"}
    /\ \E u1, u2 \in 1..Len(units) :
          /\ u1 < u2
          /\ \E s \in SourcesOf(u1) \cap SourcesOf(u2) :
                Get(dependencies, s) # <<>>

\* the lines first..last as a sequence of line numbers
LineNumbers(first, last) == [i \in 1..(last - first + 1) |-> first + i - 1]

\* C13: for every unit and every class with a declaration line in it whose
\* brace depth becomes positive and returns to zero, extract_class_scope
\* yields exactly the lines from the (first) declaration line through the
\* line at which the depth is back at zero, with their 1-based numbers.
C13_ScopeFromDeclaration ==
    \A u \in 1..Len(units) : \A name \in ClassNames :
        LET lines == units[u]
            decl == {i \in 1..Len(lines) : DeclaredName(lines[i]) = name}
        IN  decl # {} =>
              LET d == CHOOSE i \in decl : \A j \in decl : i <= j
                  e == DepthReturns(lines, d, 0, FALSE, 0)
              IN  e # 0 =>
                    extract_class_scope(lines, name) = LineNumbers(d, e)

\* C14: in the class and the system analysis, a reason recorded from a unit
\* for an edge S -> T whose target T is declared in that unit implies that a
\* legitimate-usage pattern for T matches a line of the scope of S in the
\* unit.
C14_CoLocationGuard ==
    mode \in {"class", "system"} =>
        \A key \in DOMAIN dependency_details :
            \A k \in 1..Len(dependency_details[key]) :
                \A r \in Range(dependency_details[key][k][2]) :
                    LET target == dependency_details[key][k][1]
                        lines == units[r[2]]
                    IN  DeclaredInContent(lines, target[2]) =>
                          \E i \in ScopeLinesOf(lines, key[2]) :
                              LegitimateUsage(lines[i], target[2])

(***************************************************************************)
(* Properties of the traversal of find_circular_dependencies.              *)
(***************************************************************************)
\* a call of dfs has just been entered
DfsEntered == phase = "phase1" /\ stack # <<>> /\ Top.i = 0 /\ retval = "none"

\* C15: whenever dfs is entered, the recursion-stack set is the set of the
\* nodes of the path passed to the call, so a node found on the recursion
\* stack is in the path and the fallback branch is not taken.
C15_RecStackIsPath ==
    DfsEntered =>
        /\ rec_stack = Range(Top.path)
        /\ (Top.node \in rec_stack => Top.node \in Range(Top.path))

\* a step that expands a node: dfs passes both tests and marks the node
Expands(n) ==
    /\ DfsEntered
    /\ Top.node = n
    /\ stack' # <<>>
    /\ Len(stack') = Len(stack)
    /\ stack'[Len(stack')].i = 1

====
